-------------------------- MODULE Spec2Model --------------------------
(***************************************************************************)
(* Model of prime.py: the ignore-rule engine (load_gitignore, is_ignored), *)
(* the tree packer (scan_and_pack) and the driver (main), run on a POSIX   *)
(* host (os.sep = "/", fnmatch is case-sensitive, sys.platform is neither  *)
(* win32 nor darwin, so the file explorer is opened through xdg-open).     *)
(*                                                                         *)
(* Text is a sequence of one-character strings.  A character without a     *)
(* literal has a name: BACKTICK, the control characters ("x0B", "x1C", ...)*)
(* and BAD, a byte (0xFF) that is not valid UTF-8.  File contents are      *)
(* sequences of ASCII characters and BAD bytes.  A path is a sequence of   *)
(* names, from the filesystem top.                                         *)
(*                                                                         *)
(* A directory is the sequence of its entries in the order os.scandir      *)
(* yields them; a new file shows up at any place of that sequence.  The    *)
(* artifact is written through a file object with a text layer and a       *)
(* binary layer: outfile is the text the two layers still keep, the file   *)
(* holds what they passed on, and gets the rest when the object is closed. *)
(*                                                                         *)
(* An action is one statement of main or scan_and_pack, or a run of        *)
(* statements of which one at most changes what can be seen (the tree,     *)
(* the output, the collaborators).  The user can interrupt main            *)
(* (KeyboardInterrupt) between any two statements of its try block.        *)
(***************************************************************************)
EXTENDS Integers, Sequences, FiniteSets, TLC

BACKTICK == "backtick"

BAD == "xFF"

(* ---- module-level configuration of prime.py ---- *)

INCLUDED_EXTENSIONS ==
  { <<".", "b", "a", "t">>,
    <<".", "c">>,
    <<".", "c", "p", "p">>,
    <<".", "c", "s", "s">>,
    <<".", "e", "n", "v">>,
    <<".", "g", "o">>,
    <<".", "h">>,
    <<".", "h", "p", "p">>,
    <<".", "h", "t", "m", "l">>,
    <<".", "i", "n", "o">>,
    <<".", "j", "a", "v", "a">>,
    <<".", "j", "s">>,
    <<".", "j", "s", "o", "n">>,
    <<".", "m", "d">>,
    <<".", "p", "y">>,
    <<".", "r", "s">>,
    <<".", "s", "h">>,
    <<".", "s", "q", "l">>,
    <<".", "t", "o", "m", "l">>,
    <<".", "t", "s">>,
    <<".", "t", "s", "x">>,
    <<".", "t", "x", "t">>,
    <<".", "x", "m", "l">>,
    <<".", "y", "a", "m", "l">>,
    <<".", "y", "m", "l">> }

DEFAULT_IGNORE_DIRS ==
  { <<".", "g", "i", "t">>,
    <<"n", "o", "d", "e", "_", "m", "o", "d", "u", "l", "e", "s">>,
    <<"v", "e", "n", "v">>,
    <<".", "v", "e", "n", "v">>,
    <<"p", "y", "c", "a", "c", "h", "e">>,
    <<"_", "_", "p", "y", "c", "a", "c", "h", "e", "_", "_">>,
    <<"d", "i", "s", "t">>,
    <<"b", "u", "i", "l", "d">>,
    <<".", "i", "d", "e", "a">>,
    <<".", "v", "s", "c", "o", "d", "e">>,
    <<".", "g", "e", "m", "i", "n", "i">>,
    <<"p", "a", "c", "k", "a", "g", "e", "-", "l", "o", "c", "k", ".", "j", "s", "o", "n">>,
    <<"y", "a", "r", "n", ".", "l", "o", "c", "k">>,
    <<"p", "n", "p", "m", "-", "l", "o", "c", "k", ".", "y", "a", "m", "l">>,
    <<"b", "u", "n", ".", "l", "o", "c", "k", "b">>,
    <<"i", "m", "a", "g", "e", "s">>,
    <<"a", "s", "s", "e", "t", "s">>,
    <<"p", "u", "b", "l", "i", "c">>,
    <<"t", "e", "s", "t", "-", "r", "e", "s", "u", "l", "t", "s">>,
    <<"p", "l", "a", "y", "w", "r", "i", "g", "h", "t", "-", "r", "e", "p", "o", "r", "t">>,
    <<"c", "o", "v", "e", "r", "a", "g", "e">>,
    <<".", "n", "e", "x", "t">>,
    <<".", "n", "u", "x", "t">>,
    <<"t", "a", "r", "g", "e", "t">>,
    <<"l", "o", "g", "s", ".", "t", "x", "t">>,
    <<"*", ".", "l", "o", "g">>,
    <<"*", ".", "a", "u", "d", "i", "t", ".", "j", "s", "o", "n">> }

OUTPUT_FILENAME == <<"c", "o", "d", "e", "b", "a", "s", "e", "_", "c", "o", "n", "t", "e", "x", "t", ".", "m", "d">>

PROMPT_FILENAME == <<"p", "r", "o", "m", "p", "t", ".", "t", "x", "t">>

GITIGNORE_NAME == <<".", "g", "i", "t", "i", "g", "n", "o", "r", "e">>

USER_PROMPT ==
  <<"I", " ", "h", "a", "v", "e", " ", "a", "t", "t", "a", "c", "h", "e", "d", " ", "a", " ", "f",
    "i", "l", "e", " ", BACKTICK, "c", "o", "d", "e", "b", "a", "s", "e", "_", "c", "o", "n", "t",
    "e", "x", "t", ".", "m", "d", BACKTICK, " ", "w", "h", "i", "c", "h", " ", "c", "o", "n", "t",
    "a", "i", "n", "s", " ", "t", "h", "e", " ", "f", "u", "l", "l", " ", "s", "o", "u", "r", "c",
    "e", " ", "c", "o", "d", "e", " ", "a", "n", "d", " ", "d", "i", "r", "e", "c", "t", "o", "r",
    "y", " ", "s", "t", "r", "u", "c", "t", "u", "r", "e", " ", "o", "f", " ", "m", "y", " ", "p",
    "r", "o", "j", "e", "c", "t", ".", " ", "\n", "\n", "*", "*", "I", "n", "s", "t", "r", "u",
    "c", "t", "i", "o", "n", ":", "*", "*", "\n", "1", ".", " ", " ", "*", "*", "A", "n", "a", "l",
    "y", "z", "e", "*", "*", " ", "t", "h", "e", " ", "p", "r", "o", "v", "i", "d", "e", "d", " ",
    "c", "o", "d", "e", "b", "a", "s", "e", " ", "t", "o", " ", "u", "n", "d", "e", "r", "s", "t",
    "a", "n", "d", " ", "i", "t", "s", " ", "a", "r", "c", "h", "i", "t", "e", "c", "t", "u", "r",
    "e", ",", " ", "t", "e", "c", "h", " ", "s", "t", "a", "c", "k", ",", " ", "a", "n", "d", " ",
    "k", "e", "y", " ", "c", "o", "m", "p", "o", "n", "e", "n", "t", "s", ".", "\n", "2", ".", " ",
    " ", "*", "*", "A", "c", "t", "*", "*", " ", "a", "s", " ", "a", " ", "S", "e", "n", "i", "o",
    "r", " ", "S", "o", "f", "t", "w", "a", "r", "e", " ", "A", "r", "c", "h", "i", "t", "e", "c",
    "t", " ", "a", "n", "d", " ", "C", "o", "d", "i", "n", "g", " ", "A", "s", "s", "i", "s", "t",
    "a", "n", "t", " ", "f", "o", "r", " ", "t", "h", "i", "s", " ", "s", "p", "e", "c", "i", "f",
    "i", "c", " ", "p", "r", "o", "j", "e", "c", "t", ".", "\n", "3", ".", " ", " ", "*", "*", "W",
    "a", "i", "t", "*", "*", " ", "f", "o", "r", " ", "m", "y", " ", "n", "e", "x", "t", " ", "c",
    "o", "m", "m", "a", "n", "d", ".", " ", "I", " ", "w", "i", "l", "l", " ", "a", "s", "k", " ",
    "y", "o", "u", " ", "t", "o", " ", "i", "m", "p", "l", "e", "m", "e", "n", "t", " ", "f", "e",
    "a", "t", "u", "r", "e", "s", ",", " ", "f", "i", "x", " ", "b", "u", "g", "s", ",", " ", "o",
    "r", " ", "e", "x", "p", "l", "a", "i", "n", " ", "c", "o", "d", "e", ".", " ", "W", "h", "e",
    "n", " ", "I", " ", "d", "o", ",", " ", "p", "r", "o", "v", "i", "d", "e", " ", "c", "o", "n",
    "c", "r", "e", "t", "e", " ", "c", "o", "d", "e", " ", "e", "x", "a", "m", "p", "l", "e", "s",
    " ", "a", "n", "d", " ", "f", "i", "l", "e", " ", "m", "o", "d", "i", "f", "i", "c", "a", "t",
    "i", "o", "n", "s", " ", "t", "h", "a", "t", " ", "f", "i", "t", " ", "t", "h", "e", " ", "e",
    "x", "i", "s", "t", "i", "n", "g", " ", "s", "t", "y", "l", "e", " ", "a", "n", "d", " ", "s",
    "t", "r", "u", "c", "t", "u", "r", "e", ".", "\n", "\n", "P", "l", "e", "a", "s", "e", " ",
    "c", "o", "n", "f", "i", "r", "m", " ", "y", "o", "u", " ", "h", "a", "v", "e", " ", "i", "n",
    "g", "e", "s", "t", "e", "d", " ", "t", "h", "e", " ", "c", "o", "n", "t", "e", "x", "t", " ",
    "a", "n", "d", " ", "a", "r", "e", " ", "r", "e", "a", "d", "y", ".">>

META_PROMPT ==
  <<"#", " ", "C", "o", "d", "e", "b", "a", "s", "e", " ", "C", "o", "n", "t", "e", "x", "t", "\n",
    "I", " ", "a", "m", " ", "p", "r", "o", "v", "i", "d", "i", "n", "g", " ", "m", "y", " ", "c",
    "o", "d", "e", "b", "a", "s", "e", " ", "c", "o", "n", "t", "e", "x", "t", " ", "b", "e", "l",
    "o", "w", " ", "i", "n", " ", "t", "h", "i", "s", " ", "f", "l", "a", "t", "t", "e", "n", "e",
    "d", " ", "m", "a", "r", "k", "d", "o", "w", "n", " ", "f", "i", "l", "e", ".", " ", "\n",
    "\n", "#", "#", " ", "P", "r", "o", "j", "e", "c", "t", " ", "S", "t", "r", "u", "c", "t", "u",
    "r", "e", "\n", "(", "S", "e", "e", " ", "f", "i", "l", "e", " ", "p", "a", "t", "h", "s", " ",
    "b", "e", "l", "o", "w", ")", "\n", "\n", "-", "-", "-", "\n">>

(* ---- text helpers (Python str / io semantics) ---- *)

UPPER ==
  <<"A", "B", "C", "D", "E", "F", "G", "H", "I", "J", "K", "L", "M",
    "N", "O", "P", "Q", "R", "S", "T", "U", "V", "W", "X", "Y", "Z">>

LOWER ==
  <<"a", "b", "c", "d", "e", "f", "g", "h", "i", "j", "k", "l", "m",
    "n", "o", "p", "q", "r", "s", "t", "u", "v", "w", "x", "y", "z">>

(* the ASCII characters: the character with code i is ASCII[i + 1] *)
ASCII ==
  << "x00", "x01", "x02", "x03", "x04", "x05", "x06", "x07",
     "x08", "\t", "\n", "x0B", "\f", "\r", "x0E", "x0F",
     "x10", "x11", "x12", "x13", "x14", "x15", "x16", "x17",
     "x18", "x19", "x1A", "x1B", "x1C", "x1D", "x1E", "x1F",
     " ", "!", "\"", "#", "$", "%", "&", "'",
     "(", ")", "*", "+", ",", "-", ".", "/",
     "0", "1", "2", "3", "4", "5", "6", "7",
     "8", "9", ":", ";", "<", "=", ">", "?",
     "@", "A", "B", "C", "D", "E", "F", "G",
     "H", "I", "J", "K", "L", "M", "N", "O",
     "P", "Q", "R", "S", "T", "U", "V", "W",
     "X", "Y", "Z", "[", "\\", "]", "^", "_",
     BACKTICK, "a", "b", "c", "d", "e", "f", "g",
     "h", "i", "j", "k", "l", "m", "n", "o",
     "p", "q", "r", "s", "t", "u", "v", "w",
     "x", "y", "z", "{", "|", "}", "~", "x7F" >>

(* ord(c) *)
Ord(c) ==
  IF c = BAD THEN 255
  ELSE (CHOOSE i \in 1..Len(ASCII) : ASCII[i] = c) - 1

(* the characters str.strip() removes: codes 9-13, 28-31 and 32 *)
WHITESPACE == {ASCII[i + 1] : i \in (9..13) \cup (28..32)}

Last(s) == s[Len(s)]

SetMin(S) == CHOOSE m \in S : \A k \in S : m <= k

SetMax(S) == CHOOSE m \in S : \A k \in S : m >= k

Indices(s) == [i \in 1..Len(s) |-> i]

(* str.lower() on one character *)
LowerChar(c) ==
  IF \E i \in 1..Len(UPPER) : UPPER[i] = c
    THEN LOWER[CHOOSE i \in 1..Len(UPPER) : UPPER[i] = c]
    ELSE c

(* str.lower() *)
Lower(s) == [i \in 1..Len(s) |-> LowerChar(s[i])]

(* str.strip(): drop leading and trailing whitespace *)
Strip(s) ==
  LET keep  == {i \in 1..Len(s) : s[i] \notin WHITESPACE}
      first == CHOOSE i \in keep : \A k \in 1..(i - 1) : s[k] \in WHITESPACE
      last  == CHOOSE i \in keep : \A k \in (i + 1)..Len(s) : s[k] \in WHITESPACE
  IN  IF keep = {} THEN <<>> ELSE SubSeq(s, first, last)

(* bytes.decode('utf-8', errors='ignore') on ASCII and 0xFF bytes: the     *)
(* undecodable bytes are dropped                                           *)
DecodeIgnore(bytes) == SelectSeq(bytes, LAMBDA b : b # BAD)

(* text mode with newline=None: "\r\n" and a lone "\r" are read as "\n"    *)
UniversalNewlines(t) ==
  LET kept == SelectSeq(Indices(t),
                        LAMBDA i : ~(t[i] = "\n" /\ i > 1 /\ t[i - 1] = "\r"))
  IN  [k \in 1..Len(kept) |-> IF t[kept[k]] = "\r" THEN "\n" ELSE t[kept[k]]]

(* open(file_path, 'r', encoding='utf-8', errors='ignore').read() *)
ReadText(bytes) == UniversalNewlines(DecodeIgnore(bytes))

(* iteration over a text file: the lines of t, each with its line end     *)
SplitLines(t) ==
  LET ends   == {i \in 1..Len(t) : t[i] = "\n"} \cup
                (IF t # <<>> /\ Last(t) # "\n" THEN {Len(t)} ELSE {})
      ordEnd == SelectSeq(Indices(t), LAMBDA i : i \in ends)
  IN  [k \in 1..Len(ordEnd) |->
         SubSeq(t, (IF k = 1 THEN 1 ELSE ordEnd[k - 1] + 1), ordEnd[k])]

(* os.path.splitext(filename)[1]: from the last dot, unless only dots     *)
(* come before it                                                         *)
splitext(name) ==
  LET dots == {i \in 1..Len(name) : name[i] = "."}
  IN  IF dots = {} THEN <<>>
      ELSE LET d == SetMax(dots)
           IN  IF \E k \in 1..(d - 1) : name[k] # "."
                 THEN SubSeq(name, d, Len(name))
                 ELSE <<>>

(* "/".join(names) *)
RECURSIVE JoinSlash(_)
JoinSlash(names) ==
  IF names = <<>> THEN <<>>
  ELSE IF Len(names) = 1 THEN names[1]
  ELSE names[1] \o <<"/">> \o JoinSlash(Tail(names))

(* os.path.relpath(path, root_path) for a path beneath root_path *)
relpath(path, root_path) ==
  JoinSlash(SubSeq(path, Len(root_path) + 1, Len(path)))

(* ---- fnmatch.fnmatch on a POSIX host ---- *)

(* fnmatch.translate: the index of the "]" closing the bracket opened at  *)
(* pat[j], or 0 when the "[" is a literal                                 *)
BracketEnd(pat, j) ==
  LET n == Len(pat)
      a == j + 1
      b == IF a <= n /\ pat[a] = "!" THEN a + 1 ELSE a
      c == IF b <= n /\ pat[b] = "]" THEN b + 1 ELSE b
      closes == {k \in c..n : pat[k] = "]"}
  IN  IF closes = {} THEN 0 ELSE SetMin(closes)

(* fnmatch.translate: the first "-" of stuff at or after k, or 0 *)
FirstHyphen(stuff, k) ==
  LET hs == {h \in k..Len(stuff) : stuff[h] = "-"}
  IN  IF hs = {} THEN 0 ELSE SetMin(hs)

(* fnmatch.translate: stuff is cut at the hyphens that make a range; the  *)
(* search for the next one resumes two characters after a hyphen          *)
RECURSIVE ChunksFrom(_, _, _)
ChunksFrom(stuff, i, k) ==
  IF FirstHyphen(stuff, k) = 0
    THEN <<SubSeq(stuff, i, Len(stuff))>>
    ELSE <<SubSeq(stuff, i, FirstHyphen(stuff, k) - 1)>> \o
         ChunksFrom(stuff, FirstHyphen(stuff, k) + 1, FirstHyphen(stuff, k) + 3)

(* "if chunk: chunks.append(chunk) else: chunks[-1] += '-'" *)
Chunks(stuff) ==
  LET c == ChunksFrom(stuff, 1, IF stuff[1] = "!" THEN 3 ELSE 2)
      n == Len(c)
  IN  IF c[n] = <<>> /\ n > 1
        THEN [m \in 1..(n - 1) |-> IF m = n - 1 THEN Append(c[m], "-") ELSE c[m]]
        ELSE c

(* "Remove empty ranges": from the last pair of chunks down to the first, *)
(* a range whose low end is above its high end is dropped with both ends  *)
RECURSIVE RemoveEmptyRanges(_, _)
RemoveEmptyRanges(ch, k) ==
  IF k < 2 THEN ch
  ELSE IF Ord(Last(ch[k - 1])) > Ord(ch[k][1])
    THEN RemoveEmptyRanges(
           [m \in 1..(Len(ch) - 1) |->
              IF m < k - 1 THEN ch[m]
              ELSE IF m = k - 1
                THEN SubSeq(ch[k - 1], 1, Len(ch[k - 1]) - 1) \o Tail(ch[k])
                ELSE ch[m + 1]],
           k - 1)
    ELSE RemoveEmptyRanges(ch, k - 1)

(* a character against the chunks of a set: the last character of a chunk *)
(* and the first of the next one are the ends of a range, the others are  *)
(* members                                                                *)
InChunks(ch, cs) ==
  \E m \in 1..Len(cs) :
    \/ \E p \in (IF m > 1 THEN 2 ELSE 1)..(IF m < Len(cs) THEN Len(cs[m]) - 1 ELSE Len(cs[m])) :
         cs[m][p] = ch
    \/ /\ m < Len(cs)
       /\ Ord(Last(cs[m])) <= Ord(ch)
       /\ Ord(ch) <= Ord(cs[m + 1][1])

(* a character against the bracket expression pat[j..e] *)
BracketMatches(ch, pat, j, e) ==
  LET stuff == SubSeq(pat, j + 1, e - 1)
      cs    == RemoveEmptyRanges(Chunks(stuff), Len(Chunks(stuff)))
  IN  IF Len(cs) = 1 /\ cs[1] = <<>> THEN FALSE
      ELSE IF Len(cs) = 1 /\ cs[1] = <<"!">> THEN TRUE
      ELSE IF cs[1][1] = "!"
        THEN ~InChunks(ch, [cs EXCEPT ![1] = Tail(cs[1])])
        ELSE InChunks(ch, cs)

RECURSIVE MatchFrom(_, _, _, _)
MatchFrom(name, pat, i, j) ==
  IF j > Len(pat) THEN i > Len(name)
  ELSE IF pat[j] = "*"
    THEN MatchFrom(name, pat, i, j + 1)
         \/ (i <= Len(name) /\ MatchFrom(name, pat, i + 1, j))
  ELSE IF pat[j] = "?"
    THEN i <= Len(name) /\ MatchFrom(name, pat, i + 1, j + 1)
  ELSE IF pat[j] = "[" /\ BracketEnd(pat, j) # 0
    THEN i <= Len(name)
         /\ BracketMatches(name[i], pat, j, BracketEnd(pat, j))
         /\ MatchFrom(name, pat, i + 1, BracketEnd(pat, j) + 1)
  ELSE i <= Len(name) /\ name[i] = pat[j]
       /\ MatchFrom(name, pat, i + 1, j + 1)

fnmatch(name, pat) == MatchFrom(name, pat, 1, 1)

(* ---- the filesystem the program runs on ---- *)

(* upper bound on the number of consecutive invocations of main *)
MaxRuns == 2

PROJ == << <<"p", "r", "o", "j">> >>

PROJ_SRC == << <<"p", "r", "o", "j">>, <<"s", "r", "c">> >>

PROJ_BUILD == << <<"p", "r", "o", "j">>, <<"b", "u", "i", "l", "d">> >>

PROJ_A_PY == << <<"p", "r", "o", "j">>, <<"a", ".", "p", "y">> >>

PROJ_MAIN_PY == << <<"p", "r", "o", "j">>, <<"s", "r", "c">>, <<"m", "a", "i", "n", ".", "p", "y">> >>

PROJ_GITIGNORE == << <<"p", "r", "o", "j">>, GITIGNORE_NAME >>

WORK == << <<"w", "o", "r", "k">> >>

MISSING == << <<"m", "i", "s", "s", "i", "n", "g">> >>

(* directory entries, as os.scandir yields them *)
DirEntry(name) == [name |-> name, kind |-> "dir", data |-> <<>>, readable |-> TRUE]

FileEntry(dir, name, data, unreadable) ==
  [name |-> name, kind |-> "file", data |-> data,
   readable |-> (dir \o <<name>>) \notin unreadable]

(* the number of bytes a text file object decodes at a time *)
CHUNK_SIZE == 8192

(* contents of the .gitignore at the top of the project; the last one has *)
(* an undecodable byte in its second chunk, and a line that straddles the *)
(* two chunks                                                             *)
GitignoreTexts ==
  << <<"g", "e", "n", ".", "c", "/", "\n", "#", " ", "g", "e", "n", "e", "r", "a", "t", "e", "d",
        "\n", "\n", " ", " ", "s", "r", "c", "/", "m", "*", ".", "p", "y", " ", " ", "\n">>,
     <<"[", "k", "z", "]", ".", "p", "y", "\r", "\n", "?", "o", "t", "e", "s", ".", "*", "\r", "\n",
        "s", "r", "c", "/", "\n">>,
     <<"a", ".", "p", "y", "\n", BAD, "s", "r", "c", "/", "\n">>,
     <<"[", "r", "-", "t", "]", "r", "c", "/", "\f", "\n", "x0B", "[", "!", "b", "-", "z", "]", ".",
        "p", "y", "x1F", "\n">>,
     <<"a", ".", "p", "y", "\n">> \o [i \in 1..(CHUNK_SIZE - 8) |-> "#"] \o <<"\n", "s", "r", "c", "/", "\n", BAD, "n", "o", "t", "e", "s", ".", "*", "\n">> >>

(* the trees the program is run on: which .gitignore text the project    *)
(* has (0: none), the files whose permissions make open() fail, and       *)
(* whether a.py and src/main.py are long enough for the file object of    *)
(* the artifact to pass text on before it is closed                       *)
Scenarios ==
  { <<0, {}, FALSE>>, <<0, {PROJ_MAIN_PY}, FALSE>>, <<0, {}, TRUE>>,
    <<1, {}, FALSE>>, <<1, {PROJ_A_PY}, FALSE>>, <<1, {PROJ_GITIGNORE}, FALSE>>,
    <<2, {}, FALSE>>, <<2, {PROJ_MAIN_PY}, FALSE>>,
    <<3, {}, FALSE>>,
    <<4, {}, FALSE>>,
    <<5, {}, FALSE>> }

(* gi is <<>> (no .gitignore) or <<text>> *)
Tree(gi, unreadable, long) ==
  ( <<>> :> << DirEntry(<<"p", "r", "o", "j">>), DirEntry(<<"w", "o", "r", "k">>) >> ) @@
  ( WORK :> <<>> ) @@
  ( PROJ :>
      (IF gi = <<>> THEN <<>>
       ELSE << FileEntry(PROJ, GITIGNORE_NAME, gi[1], unreadable) >>) \o
      << FileEntry(PROJ, <<"a", ".", "p", "y">>,
                   IF long THEN [i \in 1..5000 |-> "x"] ELSE <<"x", " ", "=", " ", "1", "\n">>, unreadable),
         DirEntry(<<"n", "o", "d", "e", "_", "m", "o", "d", "u", "l", "e", "s">>),
         FileEntry(PROJ, <<"a", ".", "l", "o", "g">>, <<"b", "o", "o", "t", "\n">>, unreadable),
         FileEntry(PROJ, OUTPUT_FILENAME, <<"#", " ", "o", "l", "d", "e", "r", "\n">>, unreadable),
         DirEntry(<<"s", "r", "c">>),
         FileEntry(PROJ, <<"n", "o", "t", "e", "s", ".", "T", "X", "T">>, <<"h", "i", "\r", "\n", "y", "o", BAD, "\r">>, unreadable),
         DirEntry(<<"o", "u", "t", ".", "l", "o", "g">>),
         DirEntry(<<"g", "e", "n", ".", "c">>),
         DirEntry(<<"b", "u", "i", "l", "d">>) >> ) @@
  ( << <<"p", "r", "o", "j">>, <<"n", "o", "d", "e", "_", "m", "o", "d", "u", "l", "e", "s">> >> :>
      << FileEntry(<< <<"p", "r", "o", "j">>, <<"n", "o", "d", "e", "_", "m", "o", "d", "u", "l", "e", "s">> >>, <<"x", ".", "p", "y">>, <<"x">>, unreadable),
         DirEntry(<<"d", "e", "e", "p">>) >> ) @@
  ( << <<"p", "r", "o", "j">>, <<"n", "o", "d", "e", "_", "m", "o", "d", "u", "l", "e", "s">>, <<"d", "e", "e", "p">> >> :>
      << FileEntry(<< <<"p", "r", "o", "j">>, <<"n", "o", "d", "e", "_", "m", "o", "d", "u", "l", "e", "s">>, <<"d", "e", "e", "p">> >>, <<"y", ".", "p", "y">>, <<"y">>, unreadable) >> ) @@
  ( << <<"p", "r", "o", "j">>, <<"o", "u", "t", ".", "l", "o", "g">> >> :>
      << FileEntry(<< <<"p", "r", "o", "j">>, <<"o", "u", "t", ".", "l", "o", "g">> >>, <<"z", ".", "p", "y">>, <<"z">>, unreadable) >> ) @@
  ( << <<"p", "r", "o", "j">>, <<"g", "e", "n", ".", "c">> >> :>
      << FileEntry(<< <<"p", "r", "o", "j">>, <<"g", "e", "n", ".", "c">> >>, <<"k", ".", "p", "y">>, <<"k">>, unreadable) >> ) @@
  ( PROJ_SRC :>
      << FileEntry(PROJ_SRC, <<"m", "a", "i", "n", ".", "p", "y">>,
                   IF long THEN [i \in 1..9001 |-> "y"] ELSE <<"g", "o", "(", ")", "\n">>, unreadable),
         FileEntry(PROJ_SRC, <<"g", "e", "n", ".", "c">>, <<"i", "n", "t", " ", "g", ";">>, unreadable),
         FileEntry(PROJ_SRC, OUTPUT_FILENAME, <<"#", " ", "o", "l", "d", "\n">>, unreadable),
         FileEntry(PROJ_SRC, <<"i", "m", "g", ".", "p", "n", "g">>, <<BAD, "P", "N", "G">>, unreadable),
         FileEntry(PROJ_SRC, <<".", "e", "n", "v">>, <<"K", "=", "1">>, unreadable) >> ) @@
  ( PROJ_BUILD :>
      << FileEntry(PROJ_BUILD, <<"b", ".", "p", "y">>, <<"b">>, unreadable) >> )

(* how main is invoked: the positional argument, the --path flag and the   *)
(* CONTEXT_ROOT variable are <<>> (not given) or <<path>>; cwd is          *)
(* os.getcwd()                                                             *)
Invocations ==
  { [arg |-> <<PROJ>>,       flag |-> <<>>,           env |-> <<>>,         cwd |-> WORK],
    [arg |-> <<>>,           flag |-> <<>>,           env |-> <<>>,         cwd |-> PROJ_SRC],
    [arg |-> <<PROJ>>,       flag |-> <<WORK>>,       env |-> <<PROJ_SRC>>, cwd |-> PROJ_SRC],
    [arg |-> <<>>,           flag |-> <<PROJ_BUILD>>, env |-> <<PROJ>>,     cwd |-> WORK],
    [arg |-> <<>>,           flag |-> <<>>,           env |-> <<PROJ_SRC>>, cwd |-> PROJ_BUILD],
    [arg |-> <<>>,           flag |-> <<>>,           env |-> <<>>,         cwd |-> WORK],
    [arg |-> <<MISSING>>,    flag |-> <<PROJ>>,       env |-> <<>>,         cwd |-> WORK],
    [arg |-> <<PROJ_A_PY>>,  flag |-> <<>>,           env |-> <<>>,         cwd |-> PROJ] }

(* ---- filesystem primitives ---- *)

(* os.path.isdir *)
isdir(fsys, path) == path \in DOMAIN fsys

Parent(path) == SubSeq(path, 1, Len(path) - 1)

(* os.path.exists *)
exists(fsys, path) ==
  \/ path \in DOMAIN fsys
  \/ /\ path # <<>>
     /\ Parent(path) \in DOMAIN fsys
     /\ \E i \in 1..Len(fsys[Parent(path)]) : fsys[Parent(path)][i].name = Last(path)

EntryOf(fsys, path) ==
  LET listing == fsys[Parent(path)]
  IN  listing[CHOOSE i \in 1..Len(listing) : listing[i].name = Last(path)]

(* the places of a listing where os.scandir can show a new entry: the    *)
(* order of a listing is the filesystem's, and a new name goes anywhere   *)
(* between the entries that were there                                    *)
Positions(fsys, dir) == 1..(Len(fsys[dir]) + 1)

(* open(path, 'w'): empties the file, or creates it as entry number pos   *)
(* of its directory                                                       *)
OpenForWriting(fsys, path, pos) ==
  LET dir     == Parent(path)
      listing == fsys[dir]
      new     == [name |-> Last(path), kind |-> "file", data |-> <<>>, readable |-> TRUE]
  IN  [fsys EXCEPT ![dir] =
         IF \E i \in 1..Len(listing) : listing[i].name = Last(path)
           THEN [i \in 1..Len(listing) |->
                   IF listing[i].name = Last(path)
                     THEN [listing[i] EXCEPT !.data = <<>>]
                     ELSE listing[i]]
           ELSE SubSeq(listing, 1, pos - 1) \o <<new>> \o
                SubSeq(listing, pos, Len(listing))]

(* what a file holds after the bytes of data have reached it *)
SetData(fsys, path, data) ==
  LET dir     == Parent(path)
      listing == fsys[dir]
  IN  [fsys EXCEPT ![dir] =
         [i \in 1..Len(listing) |->
            IF listing[i].name = Last(path)
              THEN [listing[i] EXCEPT !.data = data]
              ELSE listing[i]]]

(* the buffer of the binary layer of a file object: open() takes the      *)
(* block size of the file system                                          *)
BUFFER_SIZE == 4096

(* a file object open for writing text: disk is what the file holds,      *)
(* buffer what the binary layer keeps, pending what the text layer keeps  *)
NewFile == [disk |-> <<>>, buffer |-> <<>>, pending |-> <<>>]

(* BufferedWriter.write: b is kept if it fits; otherwise the buffer is    *)
(* written out, and b too unless it now fits                              *)
BufferedWrite(f, b) ==
  IF Len(b) <= BUFFER_SIZE - Len(f.buffer)
    THEN [f EXCEPT !.buffer = f.buffer \o b]
    ELSE IF Len(b) > BUFFER_SIZE
           THEN [f EXCEPT !.disk = f.disk \o f.buffer \o b, !.buffer = <<>>]
           ELSE [f EXCEPT !.disk = f.disk \o f.buffer, !.buffer = b]

(* the text layer hands its pending text to the binary layer *)
TextFlush(f) ==
  IF f.pending = <<>> THEN f
  ELSE [BufferedWrite(f, f.pending) EXCEPT !.pending = <<>>]

(* TextIOWrapper.write: pending text is handed on first if it would grow  *)
(* past a chunk with the new text, and afterwards if it fills a chunk     *)
TextWrite(f, text) ==
  LET g == IF Len(f.pending) + Len(text) > CHUNK_SIZE THEN TextFlush(f) ELSE f
      h == [g EXCEPT !.pending = g.pending \o text]
  IN  IF Len(h.pending) >= CHUNK_SIZE THEN TextFlush(h) ELSE h

(* close(): everything still kept reaches the file *)
TextClose(f) == [disk |-> f.disk \o f.buffer \o f.pending, buffer |-> <<>>, pending |-> <<>>]

(* the dirnames and filenames os.walk yields for a directory *)
NamesOf(listing) == [i \in 1..Len(listing) |-> listing[i].name]

dirnames_of(fsys, dirpath) ==
  NamesOf(SelectSeq(fsys[dirpath], LAMBDA e : e.kind = "dir"))

filenames_of(fsys, dirpath) ==
  NamesOf(SelectSeq(fsys[dirpath], LAMBDA e : e.kind = "file"))

(* ---- load_gitignore ---- *)

(* the position of the first undecodable byte of data, or 0 *)
FirstBad(data) ==
  LET bad == {i \in 1..Len(data) : data[i] = BAD}
  IN  IF bad = {} THEN 0 ELSE SetMin(bad)

(* the open/read of .gitignore raises: no permission, or bytes that are    *)
(* not UTF-8 (the file is decoded strictly)                                *)
GitignoreReadFails(fsys, root_path) ==
  LET e == EntryOf(fsys, root_path \o <<GITIGNORE_NAME>>)
  IN  e.kind = "dir" \/ ~e.readable \/ FirstBad(e.data) # 0

(* "for line in f" on bytes that are not all UTF-8: the file is decoded a *)
(* chunk at a time, so the loop gets the lines that end within the chunks *)
(* before the one with the first undecodable byte (a "\r" that ends the   *)
(* last of them is held back until the next chunk), and then the read     *)
(* raises                                                                 *)
LinesBeforeError(data) ==
  LET n     == CHUNK_SIZE * ((FirstBad(data) - 1) \div CHUNK_SIZE)
      pre   == SubSeq(data, 1, n)
      held  == IF pre # <<>> /\ Last(pre) = "\r" THEN SubSeq(pre, 1, n - 1) ELSE pre
  IN  SelectSeq(SplitLines(UniversalNewlines(held)), LAMBDA line : Last(line) = "\n")

(* the lines the loop of load_gitignore gets before it ends or raises *)
GitignoreLines(fsys, root_path) ==
  LET e == EntryOf(fsys, root_path \o <<GITIGNORE_NAME>>)
  IN  IF e.kind = "dir" \/ ~e.readable THEN <<>>
      ELSE IF FirstBad(e.data) # 0 THEN LinesBeforeError(e.data)
      ELSE SplitLines(UniversalNewlines(e.data))

IsPatternLine(line) == line # <<>> /\ line[1] # "#"

(* the patterns appended before an error are returned with the others *)
load_gitignore(fsys, root_path) ==
  IF ~exists(fsys, root_path \o <<GITIGNORE_NAME>>) THEN <<>>
  ELSE LET lines == GitignoreLines(fsys, root_path)
           strip == [i \in 1..Len(lines) |-> Strip(lines[i])]
       IN  SelectSeq(strip, IsPatternLine)

(* ---- is_ignored ---- *)

(* step 1: the name is a default entry *)
DefaultExact(name) == name \in DEFAULT_IGNORE_DIRS

(* step 2: the name matches a default entry that has a wildcard *)
DefaultWildcard(name) ==
  \E pattern \in DEFAULT_IGNORE_DIRS :
    (\E i \in 1..Len(pattern) : pattern[i] = "*") /\ fnmatch(name, pattern)

(* step 3 without the os.path.isdir test on patterns ending in "/" *)
GitignoreMatch_NoDirCheck(rel_path, name, is_dir, pattern) ==
  \/ /\ Last(pattern) = "/"
     /\ (fnmatch(rel_path \o <<"/">>, pattern) \/ fnmatch(name \o <<"/">>, pattern))
  \/ fnmatch(rel_path, pattern)
  \/ fnmatch(name, pattern)

(* step 3, for one .gitignore pattern *)
GitignoreMatch(rel_path, name, is_dir, pattern) ==
  \/ /\ Last(pattern) = "/"
     /\ is_dir
     /\ (fnmatch(rel_path \o <<"/">>, pattern) \/ fnmatch(name \o <<"/">>, pattern))
  \/ fnmatch(rel_path, pattern)
  \/ fnmatch(name, pattern)

is_ignored(fsys, path, root_path, gitignore_patterns) ==
  LET name == Last(path)
  IN  \/ DefaultExact(name)
      \/ DefaultWildcard(name)
      \/ \E i \in 1..Len(gitignore_patterns) :
           GitignoreMatch(relpath(path, root_path), name, isdir(fsys, path),
                          gitignore_patterns[i])

(* ---- scan_and_pack: what is written and what is kept ---- *)

(* the section written for one packed file *)
Section(rel_path, content) ==
  <<"\n", "#", "#", " ", "F", "i", "l", "e", ":", " ", BACKTICK>> \o rel_path \o <<BACKTICK, "\n", "\n", BACKTICK, BACKTICK, BACKTICK, "\n">> \o content \o <<"\n", BACKTICK, BACKTICK, BACKTICK, "\n">>

(* the extension check without .lower() *)
ext_allowed_CaseSensitive(filename) == splitext(filename) \in INCLUDED_EXTENSIONS

(* the file loop without the test on the reserved output name *)
FileSkipped_NoSelfExclusion(fsys, dir, filename, root_path, patterns) ==
  \/ is_ignored(fsys, dir \o <<filename>>, root_path, patterns)
  \/ Lower(splitext(filename)) \notin INCLUDED_EXTENSIONS

(* the checks of the file loop that skip a file without opening it *)
ext_allowed(filename) == Lower(splitext(filename)) \in INCLUDED_EXTENSIONS

FileSkipped(fsys, dir, filename, root_path, patterns) ==
  \/ filename = OUTPUT_FILENAME
  \/ is_ignored(fsys, dir \o <<filename>>, root_path, patterns)
  \/ ~ext_allowed(filename)

(* the pruning loop removing from a copy of dirnames: nothing is pruned *)
PruneDirs_KeepAll(fsys, dir, root_path, patterns) == dirnames_of(fsys, dir)

(* the subdirectories left in dirnames after the pruning loop *)
PruneDirs(fsys, dir, root_path, patterns) ==
  SelectSeq(dirnames_of(fsys, dir),
            LAMBDA d : ~is_ignored(fsys, dir \o <<d>>, root_path, patterns))

(* "target_path = args.path or args.flag_path or CONTEXT_ROOT or os.getcwd()" *)
TargetPath(i) ==
  IF i.arg # <<>> THEN i.arg[1]
  ELSE IF i.flag # <<>> THEN i.flag[1]
  ELSE IF i.env # <<>> THEN i.env[1]
  ELSE i.cwd

(* a line printed on standard output; the lines of dashes and the STEPS   *)
(* lines, which are the same in every run that prints them, are left out  *)
Line(tag, path, count, size) == [tag |-> tag, path |-> path, count |-> count, size |-> size]

(* what "{total_chars / 1024 / 1024:.2f}" shows, in hundredths of a MB:   *)
(* the quotient is exact in a float, and the format rounds it to the      *)
(* nearest hundredth, a tie to the even one                               *)
MegabyteHundredths(n) ==
  LET mb    == 1024 * 1024
      part  == (n % mb) * 100
      down  == (n \div mb) * 100 + (part \div mb)
      rest  == part % mb
  IN  IF 2 * rest > mb \/ (2 * rest = mb /\ down % 2 = 1) THEN down + 1 ELSE down

(* ---- state ---- *)

VARIABLES
  fs,                 \* the filesystem: directory path -> entries
  inv,                \* the invocation: arguments, environment, cwd
  pc,                 \* the statement main is at
  run,                \* number of the current invocation
  target_path,        \* main: the traversal root
  gitignore_patterns, \* scan_and_pack: patterns loaded from .gitignore
  stack,              \* os.walk: directories still to visit
  dirpath,            \* os.walk: directory being visited
  files,              \* file loop: filenames of dirpath not yet handled
  outfile,            \* scan_and_pack: text the file object still keeps
  file_count,         \* scan_and_pack: files packed
  total_size,         \* scan_and_pack: characters packed
  prompt_status,      \* main: outcome of the clipboard copy
  log,                \* lines printed so far by this invocation
  effects,            \* collaborators this invocation reached
  history             \* what the invocation before this one left

vars == <<fs, inv, pc, run, target_path, gitignore_patterns, stack, dirpath,
          files, outfile, file_count, total_size, prompt_status, log, effects,
          history>>

output_path == inv.cwd \o <<OUTPUT_FILENAME>>

prompt_path == inv.cwd \o <<PROMPT_FILENAME>>

(* the artifact as it is on disk *)
Artifact == IF exists(fs, output_path) THEN EntryOf(fs, output_path).data ELSE <<>>

(* the text layer and the binary layer of a file object keep nothing *)
NothingKept == [buffer |-> <<>>, pending |-> <<>>]

(* the file object of the artifact, and what an operation on it leaves *)
FileObject == [disk |-> Artifact, buffer |-> outfile.buffer, pending |-> outfile.pending]

Kept(f) == [buffer |-> f.buffer, pending |-> f.pending]

(* everything written to the file object of the artifact so far *)
Written == Artifact \o outfile.buffer \o outfile.pending

(* the statements at which the "with" block of scan_and_pack is open *)
ArtifactOpen == {"preamble", "walk", "count", "size", "print"}

(* the statements of the try block of main *)
InTry ==
  {"try", "load", "open", "nomatch", "clipboard", "prompt", "promptwrite", "success",
   "included", "approximate", "instruction", "browser", "explorer", "end"}
  \cup ArtifactOpen

Init ==
  /\ \E sc \in Scenarios :
       fs = Tree(IF sc[1] = 0 THEN <<>> ELSE <<GitignoreTexts[sc[1]]>>, sc[2], sc[3])
  /\ inv \in Invocations
  /\ pc = "main"
  /\ run = 1
  /\ target_path = <<>>
  /\ gitignore_patterns = <<>>
  /\ stack = <<>>
  /\ dirpath = <<>>
  /\ files = <<>>
  /\ outfile = NothingKept
  /\ file_count = 0
  /\ total_size = 0
  /\ prompt_status = "none"
  /\ log = <<>>
  /\ effects = <<>>
  /\ history = <<>>

(* main, lines 170-183: the root is not a directory *)
MainBadRoot ==
  /\ pc = "main"
  /\ ~isdir(fs, TargetPath(inv))
  /\ target_path' = TargetPath(inv)
  /\ log' = Append(log, Line("NotADirectory", <<>>, 0, 0))
  /\ pc' = "done"
  /\ UNCHANGED <<fs, inv, run, gitignore_patterns, stack, dirpath, files,
                 outfile, file_count, total_size, prompt_status, effects,
                 history>>

(* main, lines 170-187: the root is a directory, main enters its try     *)
(* block                                                                  *)
MainEnterTry ==
  /\ pc = "main"
  /\ isdir(fs, TargetPath(inv))
  /\ target_path' = TargetPath(inv)
  /\ pc' = "try"
  /\ UNCHANGED <<fs, inv, run, gitignore_patterns, stack, dirpath, files,
                 outfile, file_count, total_size, prompt_status, log,
                 effects, history>>

(* main, line 188, and scan_and_pack, line 103 *)
ScanAnnounce ==
  /\ pc = "try"
  /\ log' = Append(log, Line("Scanning", <<>>, 0, 0))
  /\ pc' = "load"
  /\ UNCHANGED <<fs, inv, run, target_path, gitignore_patterns, stack,
                 dirpath, files, outfile, file_count, total_size,
                 prompt_status, effects, history>>

(* scan_and_pack, line 105: .gitignore is loaded *)
LoadGitignore ==
  /\ pc = "load"
  /\ gitignore_patterns' = load_gitignore(fs, target_path)
  /\ log' = log \o
            (IF exists(fs, target_path \o <<GITIGNORE_NAME>>)
                /\ GitignoreReadFails(fs, target_path)
               THEN <<Line("GitignoreWarning", <<>>, 0, 0)>> ELSE <<>>)
  /\ pc' = "open"
  /\ UNCHANGED <<fs, inv, run, target_path, stack, dirpath, files, outfile,
                 file_count, total_size, prompt_status, effects, history>>

(* scan_and_pack, line 107: the artifact is opened for writing *)
OpenArtifact ==
  /\ pc = "open"
  /\ \E pos \in Positions(fs, inv.cwd) : fs' = OpenForWriting(fs, output_path, pos)
  /\ outfile' = NothingKept
  /\ pc' = "preamble"
  /\ UNCHANGED <<inv, run, target_path, gitignore_patterns, stack, dirpath,
                 files, file_count, total_size, prompt_status, log, effects,
                 history>>

(* scan_and_pack, lines 108-114: the preamble is written, the counters    *)
(* are set and os.walk is set up                                          *)
WritePreamble ==
  /\ pc = "preamble"
  /\ LET f == TextWrite(FileObject, META_PROMPT)
     IN  /\ fs' = SetData(fs, output_path, f.disk)
         /\ outfile' = Kept(f)
  /\ file_count' = 0
  /\ total_size' = 0
  /\ stack' = <<target_path>>
  /\ dirpath' = <<>>
  /\ files' = <<>>
  /\ pc' = "walk"
  /\ UNCHANGED <<inv, run, target_path, gitignore_patterns, prompt_status,
                 log, effects, history>>

(* os.walk yields the next directory; the pruning loop removes the ignored *)
(* subdirectories, the others are visited after this one, in order         *)
WalkDir ==
  /\ pc = "walk"
  /\ files = <<>>
  /\ stack # <<>>
  /\ LET d    == Head(stack)
         kept == PruneDirs(fs, d, target_path, gitignore_patterns)
     IN  /\ dirpath' = d
         /\ stack' = [i \in 1..Len(kept) |-> d \o <<kept[i]>>] \o Tail(stack)
         /\ files' = filenames_of(fs, d)
  /\ UNCHANGED <<fs, inv, pc, run, target_path, gitignore_patterns, outfile,
                 file_count, total_size, prompt_status, log, effects,
                 history>>

(* file loop: one of the three "continue" *)
SkipFile ==
  /\ pc = "walk"
  /\ files # <<>>
  /\ FileSkipped(fs, dirpath, Head(files), target_path, gitignore_patterns)
  /\ files' = Tail(files)
  /\ UNCHANGED <<fs, inv, pc, run, target_path, gitignore_patterns, stack,
                 dirpath, outfile, file_count, total_size, prompt_status,
                 log, effects, history>>

(* file loop, lines 137-144: the file is read and its section written *)
PackWrite ==
  /\ pc = "walk"
  /\ files # <<>>
  /\ ~FileSkipped(fs, dirpath, Head(files), target_path, gitignore_patterns)
  /\ EntryOf(fs, dirpath \o <<Head(files)>>).readable
  /\ LET file_path == dirpath \o <<Head(files)>>
         rel_path  == relpath(file_path, target_path)
         content   == ReadText(EntryOf(fs, file_path).data)
         f         == TextWrite(FileObject, Section(rel_path, content))
     IN  /\ fs' = SetData(fs, output_path, f.disk)
         /\ outfile' = Kept(f)
  /\ pc' = "count"
  /\ UNCHANGED <<inv, run, target_path, gitignore_patterns, stack, dirpath,
                 files, file_count, total_size, prompt_status, log, effects,
                 history>>

(* file loop, line 146 *)
PackCount ==
  /\ pc = "count"
  /\ file_count' = file_count + 1
  /\ pc' = "size"
  /\ UNCHANGED <<fs, inv, run, target_path, gitignore_patterns, stack,
                 dirpath, files, outfile, total_size, prompt_status, log,
                 effects, history>>

(* line 147 adding the size of the file in bytes instead of len(content) *)
PackSize_ByteSize ==
  /\ pc = "size"
  /\ total_size' = total_size + Len(EntryOf(fs, dirpath \o <<Head(files)>>).data)
  /\ pc' = "print"
  /\ UNCHANGED <<fs, inv, run, target_path, gitignore_patterns, stack,
                 dirpath, files, outfile, file_count, prompt_status, log,
                 effects, history>>

(* file loop, line 147 *)
PackSize ==
  /\ pc = "size"
  /\ total_size' = total_size + Len(ReadText(EntryOf(fs, dirpath \o <<Head(files)>>).data))
  /\ pc' = "print"
  /\ UNCHANGED <<fs, inv, run, target_path, gitignore_patterns, stack,
                 dirpath, files, outfile, file_count, prompt_status, log,
                 effects, history>>

(* file loop, line 148: the file is reported, the loop goes on *)
PackReport ==
  /\ pc = "print"
  /\ log' = Append(log, Line("Packed", relpath(dirpath \o <<Head(files)>>, target_path), 0, 0))
  /\ files' = Tail(files)
  /\ pc' = "walk"
  /\ UNCHANGED <<fs, inv, run, target_path, gitignore_patterns, stack,
                 dirpath, outfile, file_count, total_size, prompt_status,
                 effects, history>>

(* ReadError with the counter incremented before the read *)
ReadError_Counted ==
  /\ pc = "walk"
  /\ files # <<>>
  /\ ~FileSkipped(fs, dirpath, Head(files), target_path, gitignore_patterns)
  /\ ~EntryOf(fs, dirpath \o <<Head(files)>>).readable
  /\ file_count' = file_count + 1
  /\ log' = Append(log, Line("Skipped", relpath(dirpath \o <<Head(files)>>, target_path), 0, 0))
  /\ files' = Tail(files)
  /\ UNCHANGED <<fs, inv, pc, run, target_path, gitignore_patterns, stack,
                 dirpath, outfile, total_size, prompt_status, effects,
                 history>>

(* file loop, lines 137-140 and 150-151: open() or read() raises *)
ReadError ==
  /\ pc = "walk"
  /\ files # <<>>
  /\ ~FileSkipped(fs, dirpath, Head(files), target_path, gitignore_patterns)
  /\ ~EntryOf(fs, dirpath \o <<Head(files)>>).readable
  /\ log' = Append(log, Line("Skipped", relpath(dirpath \o <<Head(files)>>, target_path), 0, 0))
  /\ files' = Tail(files)
  /\ UNCHANGED <<fs, inv, pc, run, target_path, gitignore_patterns, stack,
                 dirpath, outfile, file_count, total_size, prompt_status,
                 effects, history>>

(* main without the "file_count == 0" return *)
ReturnNothingPacked_Proceeds ==
  /\ pc = "walk"
  /\ files = <<>>
  /\ stack = <<>>
  /\ file_count = 0
  /\ fs' = SetData(fs, output_path, TextClose(FileObject).disk)
  /\ outfile' = NothingKept
  /\ pc' = "clipboard"
  /\ UNCHANGED <<inv, run, target_path, gitignore_patterns, stack, dirpath,
                 files, file_count, total_size, prompt_status, log, effects,
                 history>>

(* the walk is over, the "with" block closes the artifact and            *)
(* scan_and_pack returns 0 files: main, line 190, goes to its report      *)
ReturnNothingPacked ==
  /\ pc = "walk"
  /\ files = <<>>
  /\ stack = <<>>
  /\ file_count = 0
  /\ fs' = SetData(fs, output_path, TextClose(FileObject).disk)
  /\ outfile' = NothingKept
  /\ pc' = "nomatch"
  /\ UNCHANGED <<inv, run, target_path, gitignore_patterns, stack, dirpath,
                 files, file_count, total_size, prompt_status, log, effects,
                 history>>

(* the same with at least one file: main goes on after line 192 *)
ReturnPacked ==
  /\ pc = "walk"
  /\ files = <<>>
  /\ stack = <<>>
  /\ file_count # 0
  /\ fs' = SetData(fs, output_path, TextClose(FileObject).disk)
  /\ outfile' = NothingKept
  /\ pc' = "clipboard"
  /\ UNCHANGED <<inv, run, target_path, gitignore_patterns, stack, dirpath,
                 files, file_count, total_size, prompt_status, log, effects,
                 history>>

(* main, line 191; the return of line 192 is MainReturns *)
ReportNothingPacked ==
  /\ pc = "nomatch"
  /\ log' = Append(log, Line("NoMatchingFiles", <<>>, 0, 0))
  /\ pc' = "end"
  /\ UNCHANGED <<fs, inv, run, target_path, gitignore_patterns, stack,
                 dirpath, files, outfile, file_count, total_size,
                 prompt_status, effects, history>>

(* pyperclip.copy succeeds *)
ClipboardCopied ==
  /\ pc = "clipboard"
  /\ effects' = Append(effects, "clipboard")
  /\ prompt_status' = "copied"
  /\ pc' = "prompt"
  /\ UNCHANGED <<fs, inv, run, target_path, gitignore_patterns, stack,
                 dirpath, files, outfile, file_count, total_size, log,
                 history>>

(* a clipboard failure that reaches the handler at the end of main *)
ClipboardFailed_Aborts ==
  /\ pc = "clipboard"
  /\ prompt_status' = "not copied"
  /\ log' = Append(log, Line("AnErrorOccurred", <<>>, 0, 0))
  /\ pc' = "done"
  /\ UNCHANGED <<fs, inv, run, target_path, gitignore_patterns, stack,
                 dirpath, files, outfile, file_count, total_size, effects,
                 history>>

(* pyperclip.copy raises *)
ClipboardFailed ==
  /\ pc = "clipboard"
  /\ prompt_status' = "not copied"
  /\ pc' = "prompt"
  /\ UNCHANGED <<fs, inv, run, target_path, gitignore_patterns, stack,
                 dirpath, files, outfile, file_count, total_size, log,
                 effects, history>>

(* main, line 202: prompt.txt is opened in the working directory *)
OpenPrompt ==
  /\ pc = "prompt"
  /\ \E pos \in Positions(fs, inv.cwd) : fs' = OpenForWriting(fs, prompt_path, pos)
  /\ pc' = "promptwrite"
  /\ UNCHANGED <<inv, run, target_path, gitignore_patterns, stack, dirpath,
                 files, outfile, file_count, total_size, prompt_status, log,
                 effects, history>>

(* main, line 203 and the end of its "with" block *)
WritePrompt ==
  /\ pc = "promptwrite"
  /\ fs' = SetData(fs, prompt_path, TextClose(TextWrite(NewFile, USER_PROMPT)).disk)
  /\ effects' = Append(effects, "prompt.txt")
  /\ pc' = "success"
  /\ UNCHANGED <<inv, run, target_path, gitignore_patterns, stack, dirpath,
                 files, outfile, file_count, total_size, prompt_status, log,
                 history>>

(* main, lines 205-206 *)
ReportSuccess ==
  /\ pc = "success"
  /\ log' = Append(log, Line("Success", <<>>, 0, 0))
  /\ pc' = "included"
  /\ UNCHANGED <<fs, inv, run, target_path, gitignore_patterns, stack,
                 dirpath, files, outfile, file_count, total_size,
                 prompt_status, effects, history>>

(* main, line 207 *)
ReportFilesIncluded ==
  /\ pc = "included"
  /\ log' = Append(log, Line("FilesIncluded", <<>>, file_count, 0))
  /\ pc' = "approximate"
  /\ UNCHANGED <<fs, inv, run, target_path, gitignore_patterns, stack,
                 dirpath, files, outfile, file_count, total_size,
                 prompt_status, effects, history>>

(* main, line 208 *)
ReportApproximateSize ==
  /\ pc = "approximate"
  /\ log' = Append(log, Line("ApproximateSize", <<>>, 0, MegabyteHundredths(total_size)))
  /\ pc' = "instruction"
  /\ UNCHANGED <<fs, inv, run, target_path, gitignore_patterns, stack,
                 dirpath, files, outfile, file_count, total_size,
                 prompt_status, effects, history>>

(* main, lines 209-216 *)
ReportInstruction ==
  /\ pc = "instruction"
  /\ log' = Append(log, Line(prompt_status, <<>>, 0, 0))
  /\ pc' = "browser"
  /\ UNCHANGED <<fs, inv, run, target_path, gitignore_patterns, stack,
                 dirpath, files, outfile, file_count, total_size,
                 prompt_status, effects, history>>

(* webbrowser.open returns True *)
BrowserOpened ==
  /\ pc = "browser"
  /\ effects' = Append(effects, "browser")
  /\ pc' = "explorer"
  /\ UNCHANGED <<fs, inv, run, target_path, gitignore_patterns, stack,
                 dirpath, files, outfile, file_count, total_size,
                 prompt_status, log, history>>

(* webbrowser.open returns False: no browser could be started *)
BrowserNotOpened ==
  /\ pc = "browser"
  /\ pc' = "explorer"
  /\ UNCHANGED <<fs, inv, run, target_path, gitignore_patterns, stack,
                 dirpath, files, outfile, file_count, total_size,
                 prompt_status, log, effects, history>>

(* webbrowser.open raises: the "except Exception" at the end of main      *)
(* reports it                                                             *)
BrowserRaised ==
  /\ pc = "browser"
  /\ log' = Append(log, Line("AnErrorOccurred", <<>>, 0, 0))
  /\ pc' = "done"
  /\ UNCHANGED <<fs, inv, run, target_path, gitignore_patterns, stack,
                 dirpath, files, outfile, file_count, total_size,
                 prompt_status, effects, history>>

(* open_file_explorer: xdg-open is started *)
ExplorerOpened ==
  /\ pc = "explorer"
  /\ effects' = Append(effects, "explorer")
  /\ pc' = "end"
  /\ UNCHANGED <<fs, inv, run, target_path, gitignore_patterns, stack,
                 dirpath, files, outfile, file_count, total_size,
                 prompt_status, log, history>>

(* open_file_explorer: Popen raises, which is caught and reported *)
ExplorerFailed ==
  /\ pc = "explorer"
  /\ log' = Append(log, Line("CouldNotOpenExplorer", <<>>, 0, 0))
  /\ pc' = "end"
  /\ UNCHANGED <<fs, inv, run, target_path, gitignore_patterns, stack,
                 dirpath, files, outfile, file_count, total_size,
                 prompt_status, effects, history>>

(* main leaves its try block: the return of line 192, or the end of the   *)
(* block after line 225                                                   *)
MainReturns ==
  /\ pc = "end"
  /\ pc' = "done"
  /\ UNCHANGED <<fs, inv, run, target_path, gitignore_patterns, stack,
                 dirpath, files, outfile, file_count, total_size,
                 prompt_status, log, effects, history>>

(* the user interrupts the run while main is in its try block: the        *)
(* KeyboardInterrupt leaves the statement main is at; if that is within   *)
(* the "with" block of scan_and_pack the artifact is closed with what     *)
(* was written so far; the "except KeyboardInterrupt" at the end of main  *)
(* reports it. (Outside the try block nothing handles the interrupt: the  *)
(* process ends in the state it is in.)                                   *)
Cancelled ==
  /\ pc \in InTry
  /\ fs' = IF pc \in ArtifactOpen
             THEN SetData(fs, output_path, TextClose(FileObject).disk) ELSE fs
  /\ outfile' = NothingKept
  /\ log' = Append(log, Line("OperationCancelled", <<>>, 0, 0))
  /\ pc' = "done"
  /\ UNCHANGED <<inv, run, target_path, gitignore_patterns, stack, dirpath,
                 files, file_count, total_size, prompt_status, effects,
                 history>>

(* what an invocation leaves for the next one to be compared with *)
Outcome ==
  IF /\ \E i \in 1..Len(log) : log[i].tag = "Scanning"
     /\ \A i \in 1..Len(log) : log[i].tag # "OperationCancelled"
    THEN [completed  |-> TRUE,
          sections   |-> SubSeq(Artifact, Len(META_PROMPT) + 1, Len(Artifact)),
          file_count |-> file_count]
    ELSE [completed |-> FALSE, sections |-> <<>>, file_count |-> 0]

(* the program is invoked again, the same way, on the tree as it is now *)
RunAgain ==
  /\ pc = "done"
  /\ run < MaxRuns
  /\ history' = <<Outcome>>
  /\ run' = run + 1
  /\ pc' = "main"
  /\ target_path' = <<>>
  /\ gitignore_patterns' = <<>>
  /\ stack' = <<>>
  /\ dirpath' = <<>>
  /\ files' = <<>>
  /\ outfile' = NothingKept
  /\ file_count' = 0
  /\ total_size' = 0
  /\ prompt_status' = "none"
  /\ log' = <<>>
  /\ effects' = <<>>
  /\ UNCHANGED <<fs, inv>>

Next ==
  \/ MainBadRoot
  \/ MainEnterTry
  \/ ScanAnnounce
  \/ LoadGitignore
  \/ OpenArtifact
  \/ WritePreamble
  \/ WalkDir
  \/ SkipFile
  \/ PackWrite
  \/ PackCount
  \/ PackSize
  \/ PackReport
  \/ ReadError
  \/ ReturnNothingPacked
  \/ ReturnPacked
  \/ ReportNothingPacked
  \/ ClipboardCopied
  \/ ClipboardFailed
  \/ OpenPrompt
  \/ WritePrompt
  \/ ReportSuccess
  \/ ReportFilesIncluded
  \/ ReportApproximateSize
  \/ ReportInstruction
  \/ BrowserOpened
  \/ BrowserNotOpened
  \/ BrowserRaised
  \/ ExplorerOpened
  \/ ExplorerFailed
  \/ MainReturns
  \/ Cancelled
  \/ RunAgain

Spec == Init /\ [][Next]_vars

(* ======================================================================= *)
(* Properties                                                              *)
(* ======================================================================= *)

(* every regular file of the tree, by its path *)
AllFilePaths ==
  UNION { { d \o <<fs[d][i].name>> :
              i \in {j \in 1..Len(fs[d]) : fs[d][j].kind = "file"} } :
          d \in DOMAIN fs }

HasLine(tag) == \E i \in 1..Len(log) : log[i].tag = tag

(* main got past the root check and scan_and_pack has started *)
Scanned == HasLine("Scanning")

(* the statements of scan_and_pack *)
InScan == {"load", "open"} \cup ArtifactOpen

(* the walk went through the whole tree and scan_and_pack was left *)
ScanOver ==
  Scanned /\ pc \notin InScan /\ dirpath # <<>> /\ stack = <<>> /\ files = <<>>

UnderRoot(f) ==
  Len(f) > Len(target_path) /\ SubSeq(f, 1, Len(target_path)) = target_path

LinesTagged(tag) == SelectSeq(log, LAMBDA l : l.tag = tag)

FilesLogged(tag) ==
  { f \in AllFilePaths :
      UnderRoot(f) /\ \E i \in 1..Len(log) :
        log[i].tag = tag /\ log[i].path = relpath(f, target_path) }

(* the file whose section was written and which lines 146-148 are about  *)
(* to count and report                                                    *)
BeingPacked ==
  IF pc \in {"count", "size", "print"} THEN <<dirpath \o <<Head(files)>>>> ELSE <<>>

(* the files a section was written for, and the files whose read failed *)
PackedFiles == FilesLogged("Packed") \cup {BeingPacked[i] : i \in 1..Len(BeingPacked)}

SkippedFiles == FilesLogged("Skipped")

(* the selection rules as the specification states them *)
MatchesDefaultEntry(name) ==
  \E e \in DEFAULT_IGNORE_DIRS :
    e = name \/ ((\E i \in 1..Len(e) : e[i] = "*") /\ fnmatch(name, e))

SlashPatterns ==
  { gitignore_patterns[i] : i \in {j \in 1..Len(gitignore_patterns) :
                                     Last(gitignore_patterns[j]) = "/"} }

PlainMatch(path, p) ==
  fnmatch(relpath(path, target_path), p) \/ fnmatch(Last(path), p)

DirOnlyMatch(path, p) ==
  fnmatch(relpath(path, target_path) \o <<"/">>, p) \/ fnmatch(Last(path) \o <<"/">>, p)

DirExcluded(d) ==
  \/ MatchesDefaultEntry(Last(d))
  \/ \E i \in 1..Len(gitignore_patterns) : PlainMatch(d, gitignore_patterns[i])
  \/ \E p \in SlashPatterns : DirOnlyMatch(d, p)

FileExcluded(f) ==
  \/ MatchesDefaultEntry(Last(f))
  \/ \E i \in 1..Len(gitignore_patterns) : PlainMatch(f, gitignore_patterns[i])

(* the directories strictly between the root and the file *)
DirsAbove(f) == { SubSeq(f, 1, k) : k \in (Len(target_path) + 1)..(Len(f) - 1) }

Reachable(f) == UnderRoot(f) /\ \A d \in DirsAbove(f) : ~DirExcluded(d)

AllowedExtension(name) == \E e \in INCLUDED_EXTENSIONS : Lower(splitext(name)) = e

Eligible(f) ==
  /\ Reachable(f)
  /\ Last(f) # OUTPUT_FILENAME
  /\ ~FileExcluded(f)
  /\ AllowedExtension(Last(f))

ShouldPack(f) == Eligible(f) /\ EntryOf(fs, f).readable

Reached(effect) == \E i \in 1..Len(effects) : effects[i] = effect

(* the user interrupted the run *)
Interrupted == HasLine("OperationCancelled")

(* scan_and_pack has just returned: main has written nothing into the    *)
(* tree since, the tree is the one the scan saw                           *)
ScanJustOver == pc \in {"nomatch", "clipboard"}

(* ---- C1 ---- *)

(* C1, as stated: no packed file lies beneath any directory whose name    *)
(* matches a default ignore entry.                                        *)
C1_NoPackedFileBeneathAnyDefaultIgnoredDir ==
  \A f \in PackedFiles : \A k \in 1..(Len(f) - 1) : ~MatchesDefaultEntry(f[k])

(* C1, amended: for every directory strictly beneath the traversal root   *)
(* whose name matches a default ignore entry (exactly or by wildcard), no *)
(* file beneath it is packed or read, and the walk never visits it nor    *)
(* queues it for a visit.                                                 *)
C1_DefaultIgnoredDirsBelowRootArePruned ==
  Scanned =>
    /\ \A f \in PackedFiles \cup SkippedFiles :
         \A d \in DirsAbove(f) : ~MatchesDefaultEntry(Last(d))
    /\ \A d \in {dirpath} \cup {stack[i] : i \in 1..Len(stack)} :
         \A k \in (Len(target_path) + 1)..Len(d) : ~MatchesDefaultEntry(d[k])

(* a run that packed files although the tree holds an allowed file two    *)
(* levels beneath a default-named directory and one beneath a directory   *)
(* matching a default wildcard                                            *)
C1_Witness ==
  /\ ScanOver
  /\ file_count > 0
  /\ \E f \in AllFilePaths :
       /\ UnderRoot(f) /\ AllowedExtension(Last(f)) /\ ~FileExcluded(f)
       /\ f \notin PackedFiles
       /\ \E d \in DirsAbove(f) : Len(d) + 1 < Len(f) /\ Last(d) \in DEFAULT_IGNORE_DIRS
  /\ \E f \in AllFilePaths :
       /\ UnderRoot(f) /\ AllowedExtension(Last(f)) /\ ~FileExcluded(f)
       /\ f \notin PackedFiles
       /\ \E d \in DirsAbove(f) :
            Last(d) \notin DEFAULT_IGNORE_DIRS /\ MatchesDefaultEntry(Last(d))

(* ---- C2 ---- *)

(* C2: a .gitignore pattern ending in "/" never matches a regular file,   *)
(* not even one whose name or root-relative path is the pattern without   *)
(* its "/": such a file, if otherwise eligible, is packed; a directory    *)
(* matching the pattern is pruned, so no file beneath it is packed or     *)
(* read.                                                                  *)
C2_TrailingSlashExcludesOnlyDirectories ==
  Scanned =>
    /\ \A p \in SlashPatterns :
         \A f \in {g \in AllFilePaths : UnderRoot(g)} :
           ~GitignoreMatch(relpath(f, target_path), Last(f), isdir(fs, f), p)
    /\ \A f \in PackedFiles \cup SkippedFiles :
         \A d \in DirsAbove(f) : \A p \in SlashPatterns : ~DirOnlyMatch(d, p)
    /\ ScanJustOver =>
         \A f \in AllFilePaths :
           (ShouldPack(f) /\ \E p \in SlashPatterns : DirOnlyMatch(f, p))
             => f \in PackedFiles

(* a finished run with a pattern "name/" loaded, a packed regular file    *)
(* called name, and an unpacked allowed file beneath a directory called   *)
(* name                                                                   *)
C2_Witness ==
  /\ ScanOver
  /\ \E p \in SlashPatterns :
       /\ \E f \in PackedFiles : Last(f) \o <<"/">> = p
       /\ \E f \in AllFilePaths :
            /\ UnderRoot(f) /\ AllowedExtension(Last(f)) /\ ~FileExcluded(f)
            /\ f \notin PackedFiles
            /\ \E d \in DirsAbove(f) :
                 Last(d) \o <<"/">> = p /\ ~MatchesDefaultEntry(Last(d))

(* ---- C3 ---- *)

(* C3: every packed file has a lowercased extension in the allowlist, and *)
(* once the scan is over every readable file that no rule excludes and    *)
(* whose extension is in the allowlist up to letter case is packed.       *)
C3_ExtensionAllowlistCaseInsensitive ==
  Scanned =>
    /\ \A f \in PackedFiles : Lower(splitext(Last(f))) \in INCLUDED_EXTENSIONS
    /\ ScanJustOver =>
         \A f \in AllFilePaths :
           (ShouldPack(f) /\ splitext(Last(f)) \notin INCLUDED_EXTENSIONS)
             => f \in PackedFiles

(* a finished run that packed a file with an upper-case extension and     *)
(* left out a reachable file that no ignore rule matches                  *)
C3_Witness ==
  /\ ScanOver
  /\ \E f \in PackedFiles : splitext(Last(f)) # Lower(splitext(Last(f)))
  /\ \E f \in AllFilePaths :
       /\ Reachable(f) /\ ~FileExcluded(f) /\ Last(f) # OUTPUT_FILENAME
       /\ splitext(Last(f)) # <<>>
       /\ ~AllowedExtension(Last(f))
       /\ f \notin PackedFiles

(* ---- C4 ---- *)

(* C4: a file named codebase_context.md is never packed and never read,   *)
(* in whichever directory it lies and in whichever run.                   *)
C4_OutputFileNeverPacked ==
  \A f \in PackedFiles \cup SkippedFiles : Last(f) # OUTPUT_FILENAME

(* a second run over a root that holds the artifact of the first run in a *)
(* visited directory, and a stale artifact in another one                 *)
C4_Witness ==
  /\ ScanOver
  /\ run > 1
  /\ file_count > 0
  /\ Reachable(output_path)
  /\ output_path \in AllFilePaths
  /\ \E f \in AllFilePaths :
       f # output_path /\ Last(f) = OUTPUT_FILENAME /\ Reachable(f) /\ ~FileExcluded(f)

(* ---- C5 ---- *)

(* C5: a second run in a row writes the same sections and returns the     *)
(* same file count as the run before it, neither run being interrupted.   *)
C5_SecondRunPacksTheSame ==
  (ScanOver /\ ~Interrupted /\ run > 1 /\ Last(history).completed) =>
    /\ SubSeq(Artifact, Len(META_PROMPT) + 1, Len(Artifact)) = Last(history).sections
    /\ file_count = Last(history).file_count

(* ---- C6 ---- *)

(* the file loop is at an eligible file that cannot be read *)
AtUnreadableFile ==
  /\ pc = "walk"
  /\ files # <<>>
  /\ Eligible(dirpath \o <<Head(files)>>)
  /\ ~EntryOf(fs, dirpath \o <<Head(files)>>).readable

(* C6: the step that handles an eligible file whose read fails reports    *)
(* the file as skipped, leaves what was written to the artifact, the file *)
(* count and the total size as they are and moves on to the next file;    *)
(* and once the scan is over every eligible readable file is packed,      *)
(* whatever failed before.                                                *)
C6_ReadFailureSkipsOnlyThatFile ==
  /\ [][(AtUnreadableFile /\ files' # files) =>
          /\ Written' = Written
          /\ Artifact' = Artifact
          /\ file_count' = file_count
          /\ total_size' = total_size
          /\ log' = Append(log, Line("Skipped",
                                     relpath(dirpath \o <<Head(files)>>, target_path), 0, 0))
          /\ files' = Tail(files)
          /\ stack' = stack
          /\ pc' = "walk"]_vars
  /\ [](ScanJustOver => \A f \in AllFilePaths : ShouldPack(f) => f \in PackedFiles)

(* a read failure with a file packed before it and a file packed after it *)
C6_Witness ==
  \E i, j, k \in 1..Len(log) :
    /\ i < j /\ j < k
    /\ log[i].tag = "Packed" /\ log[j].tag = "Skipped" /\ log[k].tag = "Packed"
    /\ file_count = Len(LinesTagged("Packed"))

(* ---- C7 ---- *)

(* C7: a run that got past the root check and packed at least one file    *)
(* goes, unless the user interrupts it, through every later step, the     *)
(* file-explorer step included, whichever collaborator failed.            *)
C7_CollaboratorFailureNeverStopsTheRun ==
  (pc = "done" /\ isdir(fs, target_path) /\ file_count > 0 /\ ~Interrupted) =>
    /\ Reached("prompt.txt")
    /\ Reached("explorer") \/ HasLine("CouldNotOpenExplorer")
    /\ ~HasLine("AnErrorOccurred")

(* ---- C8 ---- *)

(* C8, as stated: every run that passes the root check and writes the     *)
(* primary artifact has written prompt.txt when it ends, unless the user  *)
(* interrupted it.                                                        *)
C8_PromptWrittenInEveryRun ==
  (pc = "done" /\ isdir(fs, target_path) /\ ~Interrupted) => Reached("prompt.txt")

(* C8, amended: a run that the user does not interrupt and in which       *)
(* scan_and_pack returns a non-zero file count has written prompt.txt     *)
(* when it ends, whether or not the clipboard copy succeeded; a run in    *)
(* which no file was counted ends without writing prompt.txt, and if the  *)
(* user did not interrupt it, it has written the primary artifact, which  *)
(* holds the preamble only; and whenever prompt.txt was written it holds  *)
(* the fixed message.                                                     *)
C8_PromptWrittenIffFilesPacked ==
  (pc = "done" /\ isdir(fs, target_path)) =>
    /\ (file_count > 0 /\ ~Interrupted) => Reached("prompt.txt")
    /\ file_count = 0 => ~Reached("prompt.txt")
    /\ (file_count = 0 /\ ~Interrupted) =>
         /\ exists(fs, output_path)
         /\ Artifact = META_PROMPT
    /\ Reached("prompt.txt") =>
         /\ exists(fs, prompt_path)
         /\ EntryOf(fs, prompt_path).data = USER_PROMPT

(* a run that ended after the clipboard copy failed, prompt.txt written *)
C8_Witness ==
  /\ pc = "done"
  /\ ~Interrupted
  /\ file_count > 0
  /\ prompt_status = "not copied"
  /\ ~Reached("clipboard")
  /\ Reached("prompt.txt")

(* ---- C9 ---- *)

(* C9: when no file of the tree is eligible and readable, the file count  *)
(* is 0 and main ends without a success report and without reaching the   *)
(* clipboard, the browser or the file explorer: it ends on the "no        *)
(* matching files" report, unless the user interrupted it; and a success  *)
(* report is never made on an artifact without sections.                  *)
C9_NothingPackedIsDistinct ==
  /\ (pc = "done" /\ isdir(fs, target_path)
        /\ (file_count = 0 \/ \A f \in AllFilePaths : ~ShouldPack(f))) =>
       /\ file_count = 0
       /\ Last(log).tag = IF Interrupted THEN "OperationCancelled" ELSE "NoMatchingFiles"
       /\ ~HasLine("Success")
       /\ effects = <<>>
       /\ prompt_status = "none"
  /\ HasLine("Success") => (~HasLine("NoMatchingFiles") /\ Artifact # META_PROMPT)

(* a run over a tree without eligible files has ended: the artifact holds *)
(* the preamble only                                                      *)
C9_Witness ==
  /\ pc = "done"
  /\ isdir(fs, target_path)
  /\ \A f \in AllFilePaths : ~ShouldPack(f)
  /\ HasLine("NoMatchingFiles")
  /\ Artifact = META_PROMPT

(* ---- C10 ---- *)

FileAt(rel_path) ==
  CHOOSE f \in AllFilePaths : UnderRoot(f) /\ relpath(f, target_path) = rel_path

RECURSIVE SectionsOf(_)
SectionsOf(paths) ==
  IF paths = <<>> THEN <<>>
  ELSE Section(relpath(paths[1], target_path), ReadText(EntryOf(fs, paths[1]).data))
       \o SectionsOf(Tail(paths))

RECURSIVE SizeOf(_)
SizeOf(paths) ==
  IF paths = <<>> THEN 0
  ELSE Len(ReadText(EntryOf(fs, paths[1]).data)) + SizeOf(Tail(paths))

(* the files reported as packed, in that order, and the files a section   *)
(* was written for                                                        *)
Reported ==
  LET lines == LinesTagged("Packed")
  IN  [i \in 1..Len(lines) |-> FileAt(lines[i].path)]

Sectioned == Reported \o BeingPacked

(* C10, as stated: at every point of the walk what was written to the     *)
(* artifact is the preamble followed by exactly file_count sections, one  *)
(* per file packed, in the order packed, and total_size is the sum of the *)
(* lengths of the decoded contents of exactly those files.                *)
C10_CountersMatchArtifactAtEveryPoint ==
  pc \in {"walk", "count", "size", "print"} =>
    /\ Written = META_PROMPT \o SectionsOf(Sectioned)
    /\ file_count = Len(Sectioned)
    /\ total_size = SizeOf(Sectioned)

(* C10, amended: from the preamble on, what was written to the artifact   *)
(* is the preamble followed by the sections of the files packed, in the   *)
(* order packed. Between two files, and when scan_and_pack has returned,  *)
(* file_count is the number of those sections and total_size the sum of   *)
(* the lengths of the decoded contents of those files; while one file is  *)
(* packed its section is written first, then file_count is incremented,   *)
(* then total_size, then the file is reported. When the "with" block is   *)
(* left, by the return or by an interrupt, the artifact on disk holds all *)
(* that was written, the section of a file that an interrupt kept from    *)
(* being counted included.                                                *)
C10_ArtifactMatchesTotals ==
  /\ [](pc \in {"walk", "count", "size", "print", "nomatch", "clipboard"} =>
          /\ Written = META_PROMPT \o SectionsOf(Sectioned)
          /\ pc \notin ArtifactOpen => Artifact = Written
          /\ file_count = Len(Reported) + (IF pc \in {"size", "print"} THEN 1 ELSE 0)
          /\ total_size = SizeOf(Reported) + (IF pc = "print" THEN SizeOf(BeingPacked) ELSE 0))
  /\ [][(pc \in ArtifactOpen /\ pc' \notin ArtifactOpen) =>
          /\ Artifact' = Written
          /\ Written' = Written]_vars

(* in the middle of a scan, between two files, two files packed, one of   *)
(* them with bytes that decoding drops or merges, and the other so long   *)
(* that a part of what was written is on disk already                     *)
C10_Witness ==
  /\ pc = "walk"
  /\ files # <<>>
  /\ Artifact # <<>>
  /\ Artifact # Written
  /\ file_count >= 2
  /\ \E f \in PackedFiles : Len(ReadText(EntryOf(fs, f).data)) < Len(EntryOf(fs, f).data)

====
